---- MODULE Spec2Model ----
(***************************************************************************)
(* State-machine model of the FinancialSimulation engine                   *)
(* (src/financial-simulation.js).                                          *)
(*                                                                         *)
(* Encoding of JavaScript values:                                          *)
(*   - null location is the string "null" (the key the lookup             *)
(*     this.locations[null] coerces it to); a null job is the record null; *)
(*   - NaN and undefined are the two reserved numbers NaN and Undefined,   *)
(*     and all arithmetic and comparison goes through Add/Sub/Lt/Ge/Round, *)
(*     which treat them as JavaScript does;                                *)
(*   - Math.random() values are integers 0..999, in thousandths;           *)
(*   - savings, and every amount added to or compared with savings, is     *)
(*     counted in 1/Unit of a dollar, so that the Bonus event's            *)
(*     5%-of-salary cost is exact; salaries and expenses are in dollars;   *)
(*   - arithmetic is exact (binary floating-point error is not modelled).  *)
(*   - a listener is an opaque callback that returns normally and does     *)
(*     not call back into the engine.                                      *)
(***************************************************************************)
EXTENDS Integers, Sequences, FiniteSets, TLC

VARIABLES
    heap,             \* object store: reference -> contents of a player object
    player,           \* this.player: a reference into heap
    gameMonth,        \* this.gameMonth
    gameYear,         \* this.gameYear
    difficultyLevel,  \* this.difficultyLevel
    eventListeners,   \* this.eventListeners: event name -> sequence of callbacks
    saved,            \* the snapshot object the caller holds (null if none)
    savedPlayer,      \* the contents saved.player had when the snapshot was taken
    ret,              \* the last call: operation, arguments, return or throw
    emitted,          \* triggerEvent calls made by the last call, in order
    delivered         \* callback invocations made by the last call, in order

vars == <<heap, player, gameMonth, gameYear, difficultyLevel, eventListeners,
          saved, savedPlayer, ret, emitted, delivered>>

-----------------------------------------------------------------------------
(* Bounds of the model *)

MaxHistory == 2
MaxListeners == 1
MaxSkill == 2
MaxMonths == 13
MaxSubscribers == 3
MaxCareer == 4

-----------------------------------------------------------------------------
(* JavaScript values *)

null == [null |-> TRUE]
NullName == "null"
NaN == -2147483647
Undefined == -2147483646
Unit == 20

IsNum(a) == a # NaN /\ a # Undefined
Add(a, b) == IF IsNum(a) /\ IsNum(b) THEN a + b ELSE NaN
Sub(a, b) == IF IsNum(a) /\ IsNum(b) THEN a - b ELSE NaN
Neg(a) == IF IsNum(a) THEN 0 - a ELSE NaN
Times(a, n) == IF IsNum(a) THEN a * n ELSE NaN
Lt(a, b) == IsNum(a) /\ IsNum(b) /\ a < b
Ge(a, b) == IsNum(a) /\ IsNum(b) /\ a >= b
Abs(a) == IF IsNum(a) THEN (IF a < 0 THEN 0 - a ELSE a) ELSE NaN

\* Math.round(n / d) for an even d > 0: the nearest integer, halves upwards
Round(n, d) == IF IsNum(n) THEN (n + d \div 2) \div d ELSE NaN

-----------------------------------------------------------------------------
(* Catalogs set up by the constructor *)

\* multipliers in tenths
locations ==
    [k \in {"Big City", "Suburb", "Small Town", "Rural Area"} |->
        CASE k = "Big City"   -> [costMultiplier |-> 15, jobOpportunities |-> 12,
                                  salaryMultiplier |-> 13, housingCost |-> 1500]
          [] k = "Suburb"     -> [costMultiplier |-> 12, jobOpportunities |-> 10,
                                  salaryMultiplier |-> 11, housingCost |-> 1200]
          [] k = "Small Town" -> [costMultiplier |-> 8, jobOpportunities |-> 7,
                                  salaryMultiplier |-> 8, housingCost |-> 800]
          [] k = "Rural Area" -> [costMultiplier |-> 6, jobOpportunities |-> 5,
                                  salaryMultiplier |-> 7, housingCost |-> 600]]

\* property names every object inherits from Object.prototype
ObjectPrototype == {"toString", "constructor", "hasOwnProperty", "valueOf"}

\* an inherited member looked up as a catalog entry: its fields are undefined
InheritedMember ==
    [costMultiplier |-> Undefined, jobOpportunities |-> Undefined,
     salaryMultiplier |-> Undefined, housingCost |-> Undefined]

\* this.locations[name]: own entries, then the prototype chain, else undefined
LocationsHas(name) == name \in DOMAIN locations \/ name \in ObjectPrototype
LocationsGet(name) ==
    IF name \in DOMAIN locations THEN locations[name] ELSE InheritedMember

jobTitles ==
    <<"Entry Level Office", "Retail", "Skilled Trade", "Professional",
      "Management", "Executive">>

jobTypes ==
    [k \in {jobTitles[i] : i \in 1..Len(jobTitles)} |->
        CASE k = "Entry Level Office" -> [eduReq |-> 1, expReq |-> 0, baseSalary |-> 30000]
          [] k = "Retail"             -> [eduReq |-> 0, expReq |-> 0, baseSalary |-> 25000]
          [] k = "Skilled Trade"      -> [eduReq |-> 1, expReq |-> 1, baseSalary |-> 45000]
          [] k = "Professional"       -> [eduReq |-> 2, expReq |-> 1, baseSalary |-> 60000]
          [] k = "Management"         -> [eduReq |-> 2, expReq |-> 3, baseSalary |-> 80000]
          [] k = "Executive"          -> [eduReq |-> 3, expReq |-> 5, baseSalary |-> 120000]]

\* probability in thousandths; cost in dollars, or "bonus" for the cost function
randomEvents ==
    << [name |-> "Car Breakdown",     cost |-> 800,  fn |-> FALSE, probability |-> 50],
       [name |-> "Medical Emergency", cost |-> 1200, fn |-> FALSE, probability |-> 30],
       [name |-> "Tax Refund",        cost |-> -500, fn |-> FALSE, probability |-> 40],
       [name |-> "Family Emergency",  cost |-> 600,  fn |-> FALSE, probability |-> 30],
       [name |-> "Bonus",             cost |-> 0,    fn |-> TRUE,  probability |-> 60] >>

\* the cost function of the Bonus event: -salary * 0.05, in 1/Unit dollars
BonusCost(p) == Neg(Times(p.finance.salary, (5 * Unit) \div 100))

skillNames == {"education", "experience", "networking"}
expenseNames == {"housing", "food", "utilities", "transportation",
                 "entertainment", "other"}

-----------------------------------------------------------------------------
(* The state after construction *)

NewPlayer ==
    [location |-> NullName,
     job      |-> null,
     skills   |-> [education |-> 1, experience |-> 0, networking |-> 1],
     finance  |-> [salary |-> 0, savings |-> 2000 * Unit, debt |-> 0,
                   investments |-> <<>>],
     expenses |-> [housing |-> 0, food |-> 0, utilities |-> 0,
                   transportation |-> 0, entertainment |-> 0, other |-> 0],
     history  |-> <<>>]

NoListeners == [e \in {} |-> <<>>]

Init ==
    /\ heap = <<NewPlayer>>
    /\ player = 1
    /\ gameMonth = 1
    /\ gameYear = 1
    /\ difficultyLevel = "normal"
    /\ eventListeners = NoListeners
    /\ saved = null
    /\ savedPlayer = null
    /\ ret = [op |-> "constructor", args |-> <<>>, status |-> "return", val |-> <<>>]
    /\ emitted = <<>>
    /\ delivered = <<>>

-----------------------------------------------------------------------------
(* One call in progress: the engine state st it reads and writes, the stream *)
(* st.rnd of values Math.random() will return and the number st.k already    *)
(* taken, and the triggerEvent calls (out) and callback invocations (calls)  *)
(* made so far.                                                              *)

Begin(rnd) ==
    [player |-> heap[player], gameMonth |-> gameMonth, gameYear |-> gameYear,
     rnd |-> rnd, k |-> 0, out |-> <<>>, calls |-> <<>>]

\* Math.random(): the next value of the stream
random(st) == st.rnd[st.k + 1]
Drawn(st) == [st EXCEPT !.k = @ + 1]

Return(st, val) == [st |-> st, status |-> "return", val |-> val]
Throw(st) == [st |-> st, status |-> "throw", val |-> "TypeError"]

ListenersOf(event) ==
    IF event \in DOMAIN eventListeners THEN eventListeners[event] ELSE <<>>

\* triggerEvent calling the listeners of an event newest first
triggerEvent_newestFirst(st, event, data) ==
    LET L == ListenersOf(event)
    IN  [st EXCEPT !.out = Append(@, [event |-> event, data |-> data]),
                   !.calls = @ \o [i \in 1..Len(L) |->
                                     [callback |-> L[Len(L) + 1 - i], event |-> event,
                                      data |-> data]]]

triggerEvent(st, event, data) ==
    LET L == ListenersOf(event)
    IN  [st EXCEPT !.out = Append(@, [event |-> event, data |-> data]),
                   !.calls = @ \o [i \in 1..Len(L) |->
                                     [callback |-> L[i], event |-> event, data |-> data]]]

\* addToHistory putting the entry in front of the list
addToHistory_prepend(st, entry) ==
    [st EXCEPT !.player.history =
        <<[month |-> st.gameMonth, year |-> st.gameYear, entry |-> entry]>> \o @]

addToHistory(st, entry) ==
    [st EXCEPT !.player.history =
        Append(@, [month |-> st.gameMonth, year |-> st.gameYear, entry |-> entry])]

-----------------------------------------------------------------------------
(* Expenses *)

\* the total leaving out housing, the category setLocation sets by itself
calculateTotalMonthlyExpenses_withoutHousing(p) ==
    LET e == p.expenses
    IN  Add(Add(Add(Add(Add(0, e.food), e.utilities),
                e.transportation), e.entertainment), e.other)

calculateTotalMonthlyExpenses(p) ==
    LET e == p.expenses
    IN  Add(Add(Add(Add(Add(Add(0, e.housing), e.food), e.utilities),
                e.transportation), e.entertainment), e.other)

updateBasicExpenses(st) ==
    LET costMultiplier == LocationsGet(st.player.location).costMultiplier
    IN  [st EXCEPT !.player.expenses.food = Round(Times(costMultiplier, 400), 10),
                   !.player.expenses.utilities = Round(Times(costMultiplier, 200), 10),
                   !.player.expenses.transportation = Round(Times(costMultiplier, 300), 10),
                   !.player.expenses.entertainment = Round(Times(costMultiplier, 200), 10),
                   !.player.expenses.other = Round(Times(costMultiplier, 100), 10)]

setLocation(st, locationName) ==
    IF LocationsHas(locationName)
    THEN LET s1 == [st EXCEPT !.player.location = locationName,
                              !.player.expenses.housing =
                                  LocationsGet(locationName).housingCost]
             s2 == updateBasicExpenses(s1)
         IN  Return(triggerEvent(s2, "locationChanged", locationName), TRUE)
    ELSE Return(st, FALSE)

\* updateExpense reporting the total it found, not the one it leaves
updateExpense_totalBefore(st, category, amount) ==
    IF category \in expenseNames
    THEN LET s1 == [st EXCEPT !.player.expenses[category] = amount]
         IN  Return(triggerEvent(s1, "expenseUpdated",
                        [category |-> category, amount |-> amount,
                         totalExpenses |-> calculateTotalMonthlyExpenses(st.player)]),
                    TRUE)
    ELSE Return(st, FALSE)

updateExpense(st, category, amount) ==
    IF category \in expenseNames
    THEN LET s1 == [st EXCEPT !.player.expenses[category] = amount]
         IN  Return(triggerEvent(s1, "expenseUpdated",
                        [category |-> category, amount |-> amount,
                         totalExpenses |-> calculateTotalMonthlyExpenses(s1.player)]),
                    TRUE)
    ELSE Return(st, FALSE)

-----------------------------------------------------------------------------
(* Career *)

\* round(baseSalary * m/10 * pct/100 * (4500 + r)/5000); the division by 1000
\* is exact because every catalog baseSalary is a multiple of 1000
SalaryValue(baseSalary, m, pct, r) ==
    IF IsNum(m) THEN Round(((baseSalary * m) \div 1000) * pct * (4500 + r), 5000)
    ELSE NaN

calculateSalary(st, baseSalary) ==
    IF ~LocationsHas(st.player.location)
    THEN Throw(st)
    ELSE LET locationMultiplier == LocationsGet(st.player.location).salaryMultiplier
             pct == 100 + 5 * st.player.skills.education
                        + 3 * st.player.skills.experience
             r == random(st)
         IN  Return(Drawn(st), SalaryValue(baseSalary, locationMultiplier, pct, r))

\* acceptJob that drops the current job when the title is unknown
acceptJob_clearsJob(st, jobTitle) ==
    IF jobTitle \notin DOMAIN jobTypes
    THEN Return([st EXCEPT !.player.job = null, !.player.finance.salary = 0], FALSE)
    ELSE LET c == calculateSalary(st, jobTypes[jobTitle].baseSalary)
         IN  IF c.status = "throw" THEN Throw(st)
             ELSE LET job == [title |-> jobTitle, salary |-> c.val, monthsWorked |-> 0]
                      s1 == [c.st EXCEPT !.player.job = job,
                                         !.player.finance.salary = job.salary]
                      s2 == addToHistory(s1, <<"Got a job as", jobTitle,
                                               s1.player.finance.salary>>)
                  IN  Return(triggerEvent(s2, "jobAccepted", job), TRUE)

\* acceptJob that stores the new job before computing its salary
acceptJob_assignFirst(st, jobTitle) ==
    IF jobTitle \notin DOMAIN jobTypes
    THEN Return(st, FALSE)
    ELSE LET s0 == [st EXCEPT !.player.job =
                        [title |-> jobTitle, salary |-> Undefined, monthsWorked |-> 0]]
             c == calculateSalary(s0, jobTypes[jobTitle].baseSalary)
         IN  IF c.status = "throw" THEN Throw(s0)
             ELSE LET job == [title |-> jobTitle, salary |-> c.val, monthsWorked |-> 0]
                      s1 == [c.st EXCEPT !.player.job = job,
                                         !.player.finance.salary = job.salary]
                      s2 == addToHistory(s1, <<"Got a job as", jobTitle,
                                               s1.player.finance.salary>>)
                  IN  Return(triggerEvent(s2, "jobAccepted", job), TRUE)

\* acceptJob that keeps the tenure of a player who holds that title already
acceptJob_keepsTenure(st, jobTitle) ==
    IF jobTitle \notin DOMAIN jobTypes
    THEN Return(st, FALSE)
    ELSE LET c == calculateSalary(st, jobTypes[jobTitle].baseSalary)
         IN  IF c.status = "throw" THEN Throw(st)
             ELSE LET job == [title |-> jobTitle, salary |-> c.val,
                              monthsWorked |->
                                  IF st.player.job # null /\ st.player.job.title = jobTitle
                                  THEN st.player.job.monthsWorked ELSE 0]
                      s1 == [c.st EXCEPT !.player.job = job,
                                         !.player.finance.salary = job.salary]
                      s2 == addToHistory(s1, <<"Got a job as", jobTitle,
                                               s1.player.finance.salary>>)
                  IN  Return(triggerEvent(s2, "jobAccepted", job), TRUE)

acceptJob(st, jobTitle) ==
    IF jobTitle \notin DOMAIN jobTypes
    THEN Return(st, FALSE)
    ELSE LET c == calculateSalary(st, jobTypes[jobTitle].baseSalary)
         IN  IF c.status = "throw" THEN Throw(st)
             ELSE LET job == [title |-> jobTitle, salary |-> c.val, monthsWorked |-> 0]
                      s1 == [c.st EXCEPT !.player.job = job,
                                         !.player.finance.salary = job.salary]
                      s2 == addToHistory(s1, <<"Got a job as", jobTitle,
                                               s1.player.finance.salary>>)
                  IN  Return(triggerEvent(s2, "jobAccepted", job), TRUE)

RECURSIVE JobScan(_, _, _)
\* the loop of getAvailableJobs from catalog entry i on; a = [st, jobs]
JobScan(a, i, locationFactor) ==
    IF i > Len(jobTitles) THEN a
    ELSE LET st == a.st
             jobDetails == jobTypes[jobTitles[i]]
             educationMet == st.player.skills.education >= jobDetails.eduReq
             experienceMet == st.player.skills.experience >= jobDetails.expReq
             chance == Times(locationFactor, random(st))
             s1 == Drawn(st)
             qualifiedBonus == IF educationMet /\ experienceMet THEN 3000 ELSE 0
             networkingBonus == st.player.skills.networking * 500
             score == Add(Add(chance, qualifiedBonus), networkingBonus)
         IN  IF Lt(5000, score)
             THEN LET c == calculateSalary(s1, jobDetails.baseSalary)
                      offer == [title |-> jobTitles[i], eduReq |-> jobDetails.eduReq,
                                expReq |-> jobDetails.expReq,
                                baseSalary |-> jobDetails.baseSalary,
                                adjustedSalary |-> c.val]
                  IN  JobScan([st |-> c.st, jobs |-> Append(a.jobs, offer)],
                              i + 1, locationFactor)
             ELSE JobScan([st |-> s1, jobs |-> a.jobs], i + 1, locationFactor)

getAvailableJobs(st) ==
    IF ~LocationsHas(st.player.location)
    THEN Throw(st)
    ELSE LET locationFactor == LocationsGet(st.player.location).jobOpportunities
             a == JobScan([st |-> st, jobs |-> <<>>], 1, locationFactor)
         IN  Return(triggerEvent(a.st, "jobsAvailable", a.jobs), a.jobs)

\* tryForRaise that raises player.finance.salary and leaves job.salary behind
tryForRaise_financeOnly(st) ==
    IF st.player.job = null
    THEN Throw(st)
    ELSE LET chance == 50 + 2 * st.player.job.monthsWorked
                          + 10 * st.player.skills.experience
                          + 10 * st.player.skills.networking
             r == random(st)
             s1 == Drawn(st)
         IN  IF r < chance
             THEN LET raisePercent == 3000 + 5 * random(s1)
                      s2 == Drawn(s1)
                      oldSalary == s2.player.finance.salary
                      newSalary == Add(oldSalary,
                                       Round(Times(oldSalary, raisePercent \div 5), 20000))
                      s3 == [s2 EXCEPT !.player.finance.salary = newSalary]
                      raiseAmount == Sub(newSalary, oldSalary)
                      s4 == addToHistory(s3, <<"Got a raise of", raiseAmount, raisePercent>>)
                  IN  Return(triggerEvent(s4, "gotRaise",
                                 [oldSalary |-> oldSalary, newSalary |-> newSalary,
                                  raisePercent |-> raisePercent]),
                             raiseAmount)
             ELSE Return(s1, 0)

\* chance in thousandths; raisePercent in hundred-thousandths
tryForRaise(st) ==
    IF st.player.job = null
    THEN Throw(st)
    ELSE LET chance == 50 + 2 * st.player.job.monthsWorked
                          + 10 * st.player.skills.experience
                          + 10 * st.player.skills.networking
             r == random(st)
             s1 == Drawn(st)
         IN  IF r < chance
             THEN LET raisePercent == 3000 + 5 * random(s1)
                      s2 == Drawn(s1)
                      oldSalary == s2.player.finance.salary
                      newSalary == Add(oldSalary,
                                       Round(Times(oldSalary, raisePercent \div 5), 20000))
                      s3 == [s2 EXCEPT !.player.finance.salary = newSalary,
                                       !.player.job.salary = newSalary]
                      raiseAmount == Sub(newSalary, oldSalary)
                      s4 == addToHistory(s3, <<"Got a raise of", raiseAmount, raisePercent>>)
                  IN  Return(triggerEvent(s4, "gotRaise",
                                 [oldSalary |-> oldSalary, newSalary |-> newSalary,
                                  raisePercent |-> raisePercent]),
                             raiseAmount)
             ELSE Return(s1, 0)

-----------------------------------------------------------------------------
(* Time and money *)

\* the cost of catalog entry i, in 1/Unit dollars
EventCost(p, i) ==
    IF randomEvents[i].fn THEN BonusCost(p) ELSE randomEvents[i].cost * Unit

\* the body of the loop of processRandomEvent for a triggered entry i
FireEvent(st, i) ==
    LET event == randomEvents[i]
        cost == EventCost(st.player, i)
        s1 == [st EXCEPT !.player.finance.savings = Sub(@, cost)]
        s2 == addToHistory(s1, <<"Random event", event.name,
                                 IF Lt(cost, 0) THEN "Gained" ELSE "Cost", Abs(cost)>>)
    IN  triggerEvent(s2, "randomEvent", [name |-> event.name, cost |-> cost])

RECURSIVE EventScan_noBreak(_, _)
\* the loop of processRandomEvent without its break
EventScan_noBreak(st, i) ==
    IF i > Len(randomEvents) THEN st
    ELSE IF random(st) < randomEvents[i].probability
         THEN EventScan_noBreak(FireEvent(Drawn(st), i), i + 1)
         ELSE EventScan_noBreak(Drawn(st), i + 1)

RECURSIVE EventScan(_, _)
\* the loop of processRandomEvent from catalog entry i on
EventScan(st, i) ==
    IF i > Len(randomEvents) THEN st
    ELSE IF random(st) < randomEvents[i].probability
         THEN FireEvent(Drawn(st), i)
         ELSE EventScan(Drawn(st), i + 1)

processRandomEvent(st) == Return(EventScan(st, 1), "undefined")

\* the raise attempted before the month's income is credited
Income_raiseFirst(st) ==
    IF st.player.job # null
    THEN LET s1 == tryForRaise(st).st
             monthlyIncome == Round(s1.player.finance.salary, 12)
         IN  [s1 EXCEPT !.player.finance.savings = Add(@, Times(monthlyIncome, Unit)),
                        !.player.job.monthsWorked = @ + 1]
    ELSE st

\* lines 251-258 of processMonth
Income(st) ==
    IF st.player.job # null
    THEN LET monthlyIncome == Round(st.player.finance.salary, 12)
             s1 == [st EXCEPT !.player.finance.savings = Add(@, Times(monthlyIncome, Unit)),
                              !.player.job.monthsWorked = @ + 1]
         IN  tryForRaise(s1).st
    ELSE st

\* the calendar wrapping one month early
AdvanceCalendar_wrapsAt12(st) ==
    IF st.gameMonth + 1 >= 12
    THEN [st EXCEPT !.gameMonth = 1, !.gameYear = @ + 1]
    ELSE [st EXCEPT !.gameMonth = @ + 1]

\* lines 268-272 of processMonth
AdvanceCalendar(st) ==
    IF st.gameMonth + 1 > 12
    THEN [st EXCEPT !.gameMonth = 1, !.gameYear = @ + 1]
    ELSE [st EXCEPT !.gameMonth = @ + 1]

\* processMonth deciding isBroke from the savings the call started with
processMonth_brokeAtStart(st) ==
    LET s1 == Income(st)
        monthlyExpenses == calculateTotalMonthlyExpenses(s1.player)
        s2 == [s1 EXCEPT !.player.finance.savings = Sub(@, Times(monthlyExpenses, Unit))]
        s3 == processRandomEvent(s2).st
        s4 == AdvanceCalendar(s3)
        isBroke == Lt(st.player.finance.savings, 0)
        income == IF s4.player.job # null THEN Round(s4.player.finance.salary, 12) ELSE 0
        s5 == addToHistory(s4, <<"Month", s4.gameMonth, s4.gameYear, income,
                                 monthlyExpenses, s4.player.finance.savings>>)
        s6 == triggerEvent(s5, "monthProcessed",
                  [month |-> s5.gameMonth, year |-> s5.gameYear, income |-> income,
                   expenses |-> monthlyExpenses, savings |-> s5.player.finance.savings,
                   isBroke |-> isBroke])
    IN  Return(s6, [isBroke |-> isBroke, month |-> s6.gameMonth, year |-> s6.gameYear])

\* processMonth writing its summary and notification before the calendar
\* advances
processMonth_summaryFirst(st) ==
    LET s1 == Income(st)
        monthlyExpenses == calculateTotalMonthlyExpenses(s1.player)
        s2 == [s1 EXCEPT !.player.finance.savings = Sub(@, Times(monthlyExpenses, Unit))]
        s3 == processRandomEvent(s2).st
        isBroke == Lt(s3.player.finance.savings, 0)
        income == IF s3.player.job # null THEN Round(s3.player.finance.salary, 12) ELSE 0
        s4 == addToHistory(s3, <<"Month", s3.gameMonth, s3.gameYear, income,
                                 monthlyExpenses, s3.player.finance.savings>>)
        s5 == triggerEvent(s4, "monthProcessed",
                  [month |-> s4.gameMonth, year |-> s4.gameYear, income |-> income,
                   expenses |-> monthlyExpenses, savings |-> s4.player.finance.savings,
                   isBroke |-> isBroke])
        s6 == AdvanceCalendar(s5)
    IN  Return(s6, [isBroke |-> isBroke, month |-> s6.gameMonth, year |-> s6.gameYear])

processMonth(st) ==
    LET s1 == Income(st)
        monthlyExpenses == calculateTotalMonthlyExpenses(s1.player)
        s2 == [s1 EXCEPT !.player.finance.savings = Sub(@, Times(monthlyExpenses, Unit))]
        s3 == processRandomEvent(s2).st
        s4 == AdvanceCalendar(s3)
        isBroke == Lt(s4.player.finance.savings, 0)
        income == IF s4.player.job # null THEN Round(s4.player.finance.salary, 12) ELSE 0
        s5 == addToHistory(s4, <<"Month", s4.gameMonth, s4.gameYear, income,
                                 monthlyExpenses, s4.player.finance.savings>>)
        s6 == triggerEvent(s5, "monthProcessed",
                  [month |-> s5.gameMonth, year |-> s5.gameYear, income |-> income,
                   expenses |-> monthlyExpenses, savings |-> s5.player.finance.savings,
                   isBroke |-> isBroke])
    IN  Return(s6, [isBroke |-> isBroke, month |-> s6.gameMonth, year |-> s6.gameYear])

-----------------------------------------------------------------------------
(* Skills *)

\* improveSkill charging a flat 500 per level, whatever the current level
improveSkill_flatCost(st, skillName, amount) ==
    IF skillName \in skillNames
    THEN LET cost == 500 * amount * Unit
         IN  IF Ge(st.player.finance.savings, cost)
             THEN LET s1 == [st EXCEPT !.player.finance.savings = Sub(@, cost),
                                       !.player.skills[skillName] = @ + amount]
                      s2 == addToHistory(s1, <<"Improved", skillName,
                                               s1.player.skills[skillName], cost>>)
                  IN  Return(triggerEvent(s2, "skillImproved",
                                 [skill |-> skillName,
                                  newLevel |-> s2.player.skills[skillName],
                                  cost |-> cost]),
                             TRUE)
             ELSE Return(st, FALSE)
    ELSE Return(st, FALSE)

improveSkill(st, skillName, amount) ==
    IF skillName \in skillNames
    THEN LET cost == 500 * amount * (st.player.skills[skillName] + 1) * Unit
         IN  IF Ge(st.player.finance.savings, cost)
             THEN LET s1 == [st EXCEPT !.player.finance.savings = Sub(@, cost),
                                       !.player.skills[skillName] = @ + amount]
                      s2 == addToHistory(s1, <<"Improved", skillName,
                                               s1.player.skills[skillName], cost>>)
                  IN  Return(triggerEvent(s2, "skillImproved",
                                 [skill |-> skillName,
                                  newLevel |-> s2.player.skills[skillName],
                                  cost |-> cost]),
                             TRUE)
             ELSE Return(st, FALSE)
    ELSE Return(st, FALSE)

-----------------------------------------------------------------------------
(* Lifecycle. A snapshot holds the reference this.player, not a copy. *)

getGameState ==
    [player |-> player, gameMonth |-> gameMonth, gameYear |-> gameYear,
     difficultyLevel |-> difficultyLevel]

\* loadGameState with the month and the year taken from each other's field
loadGameState_swapped(state) ==
    [player |-> state.player, gameMonth |-> state.gameYear,
     gameYear |-> state.gameMonth, difficultyLevel |-> state.difficultyLevel]

\* the engine fields loadGameState assigns
loadGameState(state) ==
    [player |-> state.player, gameMonth |-> state.gameMonth,
     gameYear |-> state.gameYear, difficultyLevel |-> state.difficultyLevel]

\* resetGame calls the class constructor as a plain function, this.constructor(),
\* which a class constructor refuses with a TypeError before running its body
resetGame(st) == Throw(st)

addEventListener(event, callback) ==
    IF event \in DOMAIN eventListeners
    THEN [eventListeners EXCEPT ![event] = Append(@, callback)]
    ELSE [e \in DOMAIN eventListeners \cup {event} |->
             IF e = event THEN <<callback>> ELSE eventListeners[e]]

-----------------------------------------------------------------------------
(* Actions: one call of one public operation *)

\* the call ends with result r: its writes to the player object and the
\* calendar take effect, and the caller sees its return value or exception
Finish(op, args, r) ==
    /\ heap' = [heap EXCEPT ![player] = r.st.player]
    /\ gameMonth' = r.st.gameMonth
    /\ gameYear' = r.st.gameYear
    /\ emitted' = r.st.out
    /\ delivered' = r.st.calls
    /\ ret' = [op |-> op, args |-> args, status |-> r.status, val |-> r.val]
    /\ UNCHANGED <<player, difficultyLevel, eventListeners, saved, savedPlayer>>

SetLocation(locationName) ==
    Finish("setLocation", <<locationName>>, setLocation(Begin(<<>>), locationName))

UpdateExpense(category, amount) ==
    Finish("updateExpense", <<category, amount>>,
           updateExpense(Begin(<<>>), category, amount))

GetAvailableJobs(rnd) ==
    Finish("getAvailableJobs", <<>>, getAvailableJobs(Begin(rnd)))

AcceptJob(jobTitle, rnd) ==
    Finish("acceptJob", <<jobTitle>>, acceptJob(Begin(rnd), jobTitle))

TryForRaise(rnd) ==
    Finish("tryForRaise", <<>>, tryForRaise(Begin(rnd)))

ProcessMonth(rnd) ==
    Finish("processMonth", <<>>, processMonth(Begin(rnd)))

ProcessRandomEvent(rnd) ==
    Finish("processRandomEvent", rnd, processRandomEvent(Begin(rnd)))

ImproveSkill(skillName, amount) ==
    Finish("improveSkill", <<skillName, amount>>,
           improveSkill(Begin(<<>>), skillName, amount))

ResetGame ==
    Finish("resetGame", <<>>, resetGame(Begin(<<>>)))

\* keep: whether the caller stores the snapshot it is handed
GetGameState(keep) ==
    /\ saved' = IF keep THEN getGameState ELSE saved
    /\ savedPlayer' = IF keep THEN heap[player] ELSE savedPlayer
    /\ ret' = [op |-> "getGameState", args |-> <<>>, status |-> "return",
               val |-> getGameState]
    /\ emitted' = <<>>
    /\ delivered' = <<>>
    /\ UNCHANGED <<heap, player, gameMonth, gameYear, difficultyLevel, eventListeners>>

LoadGameState(state) ==
    LET new == loadGameState(state)
        s1 == triggerEvent(Begin(<<>>), "gameLoaded", new)
    IN  /\ player' = new.player
        /\ gameMonth' = new.gameMonth
        /\ gameYear' = new.gameYear
        /\ difficultyLevel' = new.difficultyLevel
        /\ emitted' = s1.out
        /\ delivered' = s1.calls
        /\ ret' = [op |-> "loadGameState", args |-> <<state>>, status |-> "return",
                   val |-> "undefined"]
        /\ UNCHANGED <<heap, eventListeners, saved, savedPlayer>>

AddEventListener(event, callback) ==
    /\ eventListeners' = addEventListener(event, callback)
    /\ ret' = [op |-> "addEventListener", args |-> <<event, callback>>,
               status |-> "return", val |-> "undefined"]
    /\ emitted' = <<>>
    /\ delivered' = <<>>
    /\ UNCHANGED <<heap, player, gameMonth, gameYear, difficultyLevel, saved,
                   savedPlayer>>

-----------------------------------------------------------------------------
(* Inputs. A specification draws every call's arguments, and the values   *)
(* Math.random() returns during it, from the sets of one input record.    *)

\* streams of Math.random() values, in thousandths
Streams(n, D) == [1..n -> D]
Constant(n, d) == [i \in 1..n |-> d]

History == heap[player].history
HistoryRoom(I) == Len(History) < I.maxHistory
Subscriptions ==
    LET RECURSIVE Sum(_)
        Sum(S) == IF S = {} THEN 0
                  ELSE LET e == CHOOSE x \in S : TRUE
                       IN  Len(eventListeners[e]) + Sum(S \ {e})
    IN  Sum(DOMAIN eventListeners)
\* the skill levels a call leaves stay within the model's range
SkillRoom(skillName, amount) ==
    LET p == improveSkill(Begin(<<>>), skillName, amount).st.player
    IN  \A k \in skillNames : p.skills[k] <= MaxSkill /\ p.skills[k] >= 0 - MaxSkill

NextOf(I) ==
    \/ \E n \in I.locations : SetLocation(n)
    \/ \E c \in I.categories, a \in I.amounts : UpdateExpense(c, a)
    \/ \E rnd \in I.jobStreams : GetAvailableJobs(rnd)
    \/ \E t \in I.titles, rnd \in I.salaryStreams : HistoryRoom(I) /\ AcceptJob(t, rnd)
    \/ \E rnd \in I.raiseStreams : HistoryRoom(I) /\ TryForRaise(rnd)
    \/ \E rnd \in I.monthStreams : HistoryRoom(I) /\ ProcessMonth(rnd)
    \/ \E rnd \in I.eventStreams : HistoryRoom(I) /\ ProcessRandomEvent(rnd)
    \/ \E k \in I.skills, a \in I.skillAmounts :
          HistoryRoom(I) /\ SkillRoom(k, a) /\ ImproveSkill(k, a)
    \/ \E keep \in I.keep : GetGameState(keep)
    \/ \E state \in {getGameState} \cup ({saved} \ {null}) : LoadGameState(state)
    \/ ResetGame
    \/ \E e \in I.events, cb \in I.callbacks :
          Subscriptions < I.maxListeners /\ AddEventListener(e, cb)

\* the engine in ordinary use
MainInputs ==
    [locations     |-> {"Big City", "Atlantis", "toString"},
     categories    |-> {"housing", "luxury"},
     amounts       |-> {250},
     titles        |-> {"Retail", "Astronaut"},
     skills        |-> {"education", "experience"},
     skillAmounts  |-> {-1, 1},
     events        |-> {"gameLoaded"},
     callbacks     |-> {"f"},
     salaryStreams |-> {<<500>>},
     raiseStreams  |-> {Constant(2, 0), Constant(2, 999)},
     eventStreams  |-> {<<999, 999, 0, 0, 0>>},
     monthStreams  |-> {Constant(7, 999), <<0, 999, 999, 999, 0, 999, 999>>},
     jobStreams    |-> {Constant(12, 500)},
     keep          |-> {FALSE},
     maxListeners  |-> MaxListeners,
     maxHistory    |-> MaxHistory]

Next == NextOf(MainInputs)

Spec == Init /\ [][Next]_vars

\* random events under every combination of qualifying and non-qualifying
\* draws, and under draws that lie between or on the catalog's probabilities
EventInputs ==
    [locations     |-> {"Big City"},
     categories    |-> {"luxury"},
     amounts       |-> {0},
     titles        |-> {"Retail"},
     skills        |-> {"charisma"},
     skillAmounts  |-> {1},
     events        |-> {"randomEvent"},
     callbacks     |-> {"f"},
     salaryStreams |-> {<<500>>},
     raiseStreams  |-> {Constant(2, 999)},
     eventStreams  |-> Streams(5, {0, 999})
                           \cup {Constant(5, 35), <<999, 35, 35, 0, 0>>,
                                 <<50, 30, 40, 30, 59>>},
     monthStreams  |-> {Constant(7, 999)},
     jobStreams    |-> {Constant(12, 500)},
     keep          |-> {FALSE},
     maxListeners  |-> MaxListeners,
     maxHistory    |-> MaxHistory]

NextEvents == NextOf(EventInputs)

SpecEvents == Init /\ [][NextEvents]_vars

\* more than a year of months in which no raise and no random event is drawn
YearInputs ==
    [locations     |-> {"Rural Area"},
     categories    |-> {"luxury"},
     amounts       |-> {0},
     titles        |-> {"Astronaut"},
     skills        |-> {"charisma"},
     skillAmounts  |-> {1},
     events        |-> {"monthProcessed"},
     callbacks     |-> {"f"},
     salaryStreams |-> {<<500>>},
     raiseStreams  |-> {Constant(2, 999)},
     eventStreams  |-> {Constant(5, 999)},
     monthStreams  |-> {Constant(7, 999)},
     jobStreams    |-> {Constant(12, 500)},
     keep          |-> {FALSE},
     maxListeners  |-> MaxListeners,
     maxHistory    |-> MaxMonths]

NextYear == NextOf(YearInputs)

SpecYear == Init /\ [][NextYear]_vars

\* several listeners, subscribed to two names in every order, and months
\* that emit both names
ListenerInputs ==
    [locations     |-> {"Big City"},
     categories    |-> {"luxury"},
     amounts       |-> {0},
     titles        |-> {"Retail"},
     skills        |-> {"charisma"},
     skillAmounts  |-> {1},
     events        |-> {"gotRaise", "monthProcessed"},
     callbacks     |-> {"f", "g"},
     salaryStreams |-> {<<500>>},
     raiseStreams  |-> {Constant(2, 999)},
     eventStreams  |-> {Constant(5, 999)},
     monthStreams  |-> {<<0, 999, 999, 999, 999, 999, 999>>},
     jobStreams    |-> {Constant(12, 500)},
     keep          |-> {FALSE},
     maxListeners  |-> MaxSubscribers,
     maxHistory    |-> MaxHistory]

NextListeners == NextOf(ListenerInputs)

SpecListeners == Init /\ [][NextListeners]_vars

\* a career: jobs accepted, held for months, raised, and accepted again
CareerInputs ==
    [locations     |-> {"Big City"},
     categories    |-> {"luxury"},
     amounts       |-> {0},
     titles        |-> {"Retail", "Professional"},
     skills        |-> {"charisma"},
     skillAmounts  |-> {1},
     events        |-> {"jobAccepted"},
     callbacks     |-> {"f"},
     salaryStreams |-> {<<500>>},
     raiseStreams  |-> {Constant(2, 0)},
     eventStreams  |-> {Constant(5, 999)},
     monthStreams  |-> {Constant(7, 999)},
     jobStreams    |-> {Constant(12, 500)},
     keep          |-> {FALSE},
     maxListeners  |-> MaxListeners,
     maxHistory    |-> MaxCareer]

NextCareer == NextOf(CareerInputs)

SpecCareer == Init /\ [][NextCareer]_vars

\* a caller that keeps the snapshots it takes and loads them later
SnapshotInputs ==
    [locations     |-> {"Big City"},
     categories    |-> {"housing"},
     amounts       |-> {250},
     titles        |-> {"Retail"},
     skills        |-> {"education"},
     skillAmounts  |-> {1},
     events        |-> {"gameLoaded"},
     callbacks     |-> {"f"},
     salaryStreams |-> {<<500>>},
     raiseStreams  |-> {Constant(2, 999)},
     eventStreams  |-> {Constant(5, 999)},
     monthStreams  |-> {Constant(7, 999)},
     jobStreams    |-> {Constant(12, 500)},
     keep          |-> {TRUE},
     maxListeners  |-> MaxListeners,
     maxHistory    |-> MaxHistory]

NextSnapshot == NextOf(SnapshotInputs)

SpecSnapshot == Init /\ [][NextSnapshot]_vars

-----------------------------------------------------------------------------
(* The claims. P is the player object the engine holds; a step whose ret'   *)
(* names an operation is one call of that operation.                        *)

P == heap[player]

\* the callback invocations one emission of event with data makes
Deliveries(event, data) ==
    [i \in 1..Len(ListenersOf(event)) |->
        [callback |-> ListenersOf(event)[i], event |-> event, data |-> data]]

HistoryHas(kind) == \E i \in 1..Len(P.history) : P.history[i].entry[1] = kind

\* C1: resetGame(), called in any reachable state, returns normally having
\* restored the player and the calendar to their construction-time defaults,
\* and delivers a gameReset notification to the listeners subscribed to it.
C1_ResetRestoresDefaults ==
    [][ret'.op = "resetGame" =>
          /\ ret'.status = "return"
          /\ heap'[player'] = NewPlayer
          /\ gameMonth' = 1 /\ gameYear' = 1
          /\ delivered' = Deliveries("gameReset", "null")]_vars

\* C2: for every name that is not one of the four catalog entries,
\* setLocation(name) returns false, emits nothing and leaves player.location
\* and all six expenses unchanged.
C2_UnknownLocationRejected ==
    [][(ret'.op = "setLocation" /\ ret'.args[1] \notin DOMAIN locations) =>
          /\ ret'.status = "return" /\ ret'.val = FALSE
          /\ emitted' = <<>>
          /\ heap'[player'].location = P.location
          /\ heap'[player'].expenses = P.expenses]_vars

\* C3: loadGameState(getGameState()) leaves the player, the month, the year
\* and the difficulty as they were, and emits exactly one gameLoaded.
C3_RoundTrip ==
    [][(ret'.op = "loadGameState" /\ ret'.args[1] = getGameState) =>
          /\ heap'[player'] = P
          /\ gameMonth' = gameMonth /\ gameYear' = gameYear
          /\ difficultyLevel' = difficultyLevel
          /\ Len(emitted') = 1 /\ emitted'[1].event = "gameLoaded"
          /\ delivered' = Deliveries("gameLoaded", getGameState)]_vars

C3_Witness ==
    /\ ret.op = "loadGameState" /\ ret.args[1] = getGameState
    /\ gameMonth = 2 /\ P.location # NullName /\ P.history # <<>>
    /\ Len(delivered) = 1

\* C4: improveSkill(skill, 1) for a recognized skill: with savings below
\* 500*(oldLevel+1) it returns false and leaves skills, savings and history
\* unchanged; with savings at or above it, it returns true, raises that skill
\* by exactly 1, lowers savings by exactly 500*(oldLevel+1) and leaves the
\* other two skills unchanged.
C4_ImproveSkillByOne ==
    [][(ret'.op = "improveSkill" /\ ret'.args[1] \in skillNames /\ ret'.args[2] = 1) =>
          LET k == ret'.args[1]
              cost == 500 * (P.skills[k] + 1) * Unit
              Q == heap'[player']
          IN  /\ Lt(P.finance.savings, cost) =>
                    /\ ret'.val = FALSE
                    /\ Q.skills = P.skills
                    /\ Q.finance.savings = P.finance.savings
                    /\ Q.history = P.history
              /\ Ge(P.finance.savings, cost) =>
                    /\ ret'.val = TRUE
                    /\ Q.skills[k] = P.skills[k] + 1
                    /\ Q.finance.savings = P.finance.savings - cost
                    /\ \A j \in skillNames \ {k} : Q.skills[j] = P.skills[j]]_vars

\* a refused improvement that follows a paid one
C4_Witness ==
    /\ ret.op = "improveSkill" /\ ret.args = <<"education", 1>> /\ ret.val = FALSE
    /\ P.skills.education = 2
    /\ P.finance.savings = 1000 * Unit
    /\ HistoryHas("Improved")

\* C5: in every reachable state each of the three skill levels is a
\* non-negative integer.
C5_SkillsNonNegative ==
    \A k \in skillNames : P.skills[k] \in Nat

\* C6: player.finance.salary equals player.job.salary when a job is active
\* and equals 0 when player.job is null.
C6_SalaryMatchesJob ==
    IF P.job = null THEN P.finance.salary = 0
    ELSE P.finance.salary = P.job.salary

\* a job whose salary a raise has changed
C6_Witness ==
    /\ P.job # null
    /\ HistoryHas("Got a raise of")
    /\ IsNum(P.job.salary) /\ P.job.salary > 0

\* the entries of the event catalog whose draw is below their probability
Qualifying(draws) ==
    {i \in 1..Len(randomEvents) : draws[i] < randomEvents[i].probability}
Earliest(S) == CHOOSE i \in S : \A j \in S : i <= j

\* C7: processRandomEvent() applies the earliest catalog entry whose draw is
\* below its probability and no other: savings change by exactly minus its
\* cost, one history entry and one randomEvent notification are produced; if
\* no draw qualifies, savings and history are unchanged and nothing is emitted.
C7_OneEventPerCall ==
    [][ret'.op = "processRandomEvent" =>
          LET Q == heap'[player']
              S == Qualifying(ret'.args)
          IN  IF S = {}
              THEN /\ Q.finance.savings = P.finance.savings
                   /\ Q.history = P.history
                   /\ emitted' = <<>>
              ELSE LET i == Earliest(S)
                   IN  /\ Q.finance.savings = Sub(P.finance.savings, EventCost(P, i))
                       /\ Len(Q.history) = Len(P.history) + 1
                       /\ SubSeq(Q.history, 1, Len(P.history)) = P.history
                       /\ Q.history[Len(Q.history)].entry[2] = randomEvents[i].name
                       /\ Len(emitted') = 1
                       /\ emitted'[1].event = "randomEvent"
                       /\ emitted'[1].data.name = randomEvents[i].name]_vars

\* the third entry fires although the draws of the fourth and fifth qualify too
C7_Witness ==
    /\ ret.op = "processRandomEvent" /\ ret.args = <<999, 35, 35, 0, 0>>
    /\ Len(emitted) = 1 /\ emitted[1].data.name = "Tax Refund"
    /\ P.job # null

\* C8: gameMonth stays in 1..12; a processMonth() step from month m < 12 gives
\* m+1 in the same year, from month 12 gives month 1 of the next year; no
\* operation other than processMonth, loadGameState and resetGame changes the
\* month or the year.
C8_CalendarAdvancesByOne ==
    /\ gameMonth \in 1..12
    /\ [][/\ gameMonth' \in 1..12
          /\ ret'.op = "processMonth" =>
                IF gameMonth < 12
                THEN gameMonth' = gameMonth + 1 /\ gameYear' = gameYear
                ELSE gameMonth' = 1 /\ gameYear' = gameYear + 1
          /\ ret'.op \notin {"processMonth", "loadGameState", "resetGame"} =>
                gameMonth' = gameMonth /\ gameYear' = gameYear]_vars

\* the year has wrapped
C8_Witness ==
    /\ ret.op = "processMonth" /\ gameYear = 2 /\ gameMonth = 1
    /\ Len(P.history) = 12

\* C9: acceptJob(title) with a title that is not in the job catalog returns
\* false and leaves player.job, player.finance.salary and player.history
\* unchanged, emitting no notification.
C9_UnknownTitleRejected ==
    [][(ret'.op = "acceptJob" /\ ret'.args[1] \notin DOMAIN jobTypes) =>
          /\ ret'.status = "return" /\ ret'.val = FALSE
          /\ heap'[player'].job = P.job
          /\ heap'[player'].finance.salary = P.finance.salary
          /\ heap'[player'].history = P.history
          /\ emitted' = <<>>]_vars

\* an unknown title refused while a job is held
C9_Witness ==
    /\ ret.op = "acceptJob" /\ ret.args[1] \notin DOMAIN jobTypes
    /\ ret.val = FALSE
    /\ P.job # null

\* C10: acceptJob with a recognized title, or getAvailableJobs, called while no
\* location has been set fails, leaving player.job, player.finance,
\* player.history, the expenses and the calendar unchanged and emitting nothing.
C10_NoLocationNoMutation ==
    [][(/\ P.location = NullName
        /\ \/ ret'.op = "acceptJob" /\ ret'.args[1] \in DOMAIN jobTypes
           \/ ret'.op = "getAvailableJobs") =>
          /\ ret'.status = "throw"
          /\ heap'[player'].job = P.job
          /\ heap'[player'].finance = P.finance
          /\ heap'[player'].history = P.history
          /\ heap'[player'].expenses = P.expenses
          /\ gameMonth' = gameMonth /\ gameYear' = gameYear
          /\ emitted' = <<>>]_vars

\* a recognized title refused for want of a location, after other calls
C10_Witness ==
    /\ ret.op = "acceptJob" /\ ret.args[1] \in DOMAIN jobTypes
    /\ ret.status = "throw"
    /\ P.location = NullName
    /\ P.history # <<>>

\* the player object after the step
Q == heap'[player']

\* the names of the notifications of a call, in the order of emission
Names(out) == [i \in 1..Len(out) |-> out[i].event]

\* the payload of the last notification of a call
LastData(out) == out[Len(out)].data

\* the cost of the random event a call reported, 0 if it reported none
ReportedCost(out) ==
    IF \E i \in 1..Len(out) : out[i].event = "randomEvent"
    THEN (out[CHOOSE i \in 1..Len(out) : out[i].event = "randomEvent"]).data.cost
    ELSE 0

\* what one month adds to the savings of p: the income of a job held, minus
\* the expenses, minus cost
MonthBalance(p, cost) ==
    Sub(Sub(Add(p.finance.savings,
                IF p.job # null THEN Times(Round(p.finance.salary, 12), Unit) ELSE 0),
            Times(calculateTotalMonthlyExpenses(p), Unit)),
        cost)

\* C11: processMonth() returns isBroke = true exactly when the stored savings
\* are below 0 after the month's income, expenses and random event; the
\* monthProcessed notification carries that flag and the stored savings; and
\* the stored savings are the month's balance itself, negative when the
\* balance is, never raised to 0.
C11_BrokeIffNegativeSavings ==
    [][ret'.op = "processMonth" =>
          /\ ret'.status = "return"
          /\ ret'.val.isBroke = Lt(Q.finance.savings, 0)
          /\ emitted' # <<>> /\ emitted'[Len(emitted')].event = "monthProcessed"
          /\ LastData(emitted').isBroke = ret'.val.isBroke
          /\ LastData(emitted').savings = Q.finance.savings
          /\ Q.finance.savings = MonthBalance(P, ReportedCost(emitted'))]_vars

\* a month that began with money and ended in debt
C11_Witness ==
    /\ ret.op = "processMonth" /\ ret.val.isBroke = TRUE
    /\ P.finance.savings < 0 /\ Len(P.history) = 1
    /\ emitted[Len(emitted)].data.savings < 0

RECURSIVE DeliveriesOf(_)
\* the callback invocations the emissions out make, one emission after another
DeliveriesOf(out) ==
    IF out = <<>> THEN <<>>
    ELSE Deliveries(out[1].event, out[1].data) \o DeliveriesOf(Tail(out))

\* C12: every emission of a notification name invokes each listener subscribed
\* to that name so far exactly once, in subscription order, and no listener
\* subscribed to another name; all invocations are made by the time the
\* operation that emitted returns. A subscription goes to the end of its
\* name's list and changes no other list.
C12_ListenersInSubscriptionOrder ==
    /\ [](delivered = DeliveriesOf(emitted))
    /\ [][/\ ret'.op = "addEventListener" =>
               /\ eventListeners'[ret'.args[1]] =
                      Append(ListenersOf(ret'.args[1]), ret'.args[2])
               /\ \A e \in DOMAIN eventListeners \ {ret'.args[1]} :
                      eventListeners'[e] = eventListeners[e]
          /\ ret'.op # "addEventListener" => eventListeners' = eventListeners]_vars

\* a month that emitted two names, the second to two listeners and the first
\* to another one
C12_Witness ==
    /\ ret.op = "processMonth" /\ Names(emitted) = <<"gotRaise", "monthProcessed">>
    /\ ListenersOf("monthProcessed") = <<"g", "f">>
    /\ ListenersOf("gotRaise") = <<"f">>
    /\ Len(delivered) = 3 /\ delivered[2].callback = "g" /\ delivered[3].callback = "f"

\* the kinds of the entries a step appended to the history, oldest first
Appended == [i \in 1..(Len(Q.history) - Len(P.history)) |->
                Q.history[Len(P.history) + i].entry[1]]

\* C13: every operation other than loadGameState and resetGame leaves the
\* history it found as a prefix of the history it leaves, and each entry it
\* appends carries the calendar month and year in force when it was appended:
\* those after the call for the month summary, which processMonth appends
\* after advancing the calendar, and those before the call for every other
\* entry.
C13_HistoryAppendOnly ==
    [][ret'.op \notin {"loadGameState", "resetGame"} =>
          /\ Len(Q.history) >= Len(P.history)
          /\ SubSeq(Q.history, 1, Len(P.history)) = P.history
          /\ \A i \in (Len(P.history) + 1)..Len(Q.history) :
                IF Q.history[i].entry[1] = "Month"
                THEN /\ Q.history[i].month = gameMonth'
                     /\ Q.history[i].year = gameYear'
                     /\ i = Len(Q.history) /\ ret'.op = "processMonth"
                ELSE /\ Q.history[i].month = gameMonth
                     /\ Q.history[i].year = gameYear]_vars

\* a month appended a raise, a random event and its summary to a history
\* that already held an entry
C13_Witness ==
    /\ ret.op = "processMonth" /\ Len(P.history) = 4
    /\ P.history[1].entry[1] = "Got a job as"
    /\ P.history[2].entry[1] = "Got a raise of" /\ P.history[2].month = 1
    /\ P.history[3].entry[1] = "Random event" /\ P.history[3].month = 1
    /\ P.history[4].entry[1] = "Month" /\ P.history[4].month = 2

RECURSIVE SumOver(_, _)
\* the sum of the values f has on the keys S
SumOver(f, S) ==
    IF S = {} THEN 0
    ELSE LET k == CHOOSE x \in S : TRUE IN Add(f[k], SumOver(f, S \ {k}))

\* C14 as stated: in every reachable state calculateTotalMonthlyExpenses()
\* equals the sum of five stored expense category values.
C14_SumOfFiveCategories ==
    \E S \in SUBSET DOMAIN P.expenses :
        /\ Cardinality(S) = 5
        /\ calculateTotalMonthlyExpenses(P) = SumOver(P.expenses, S)

\* C14, amended: in every reachable state the stored expense categories are
\* the six of the constructor (housing, food, utilities, transportation,
\* entertainment, other), no operation adding or removing one, and
\* calculateTotalMonthlyExpenses() equals the sum of all six stored values.
C14_SumOfSixCategories ==
    /\ DOMAIN P.expenses = expenseNames
    /\ Cardinality(DOMAIN P.expenses) = 6
    /\ calculateTotalMonthlyExpenses(P) = SumOver(P.expenses, DOMAIN P.expenses)

\* six different amounts are stored, housing overwritten after the location
\* set the others
C14_Witness ==
    /\ ret.op = "updateExpense" /\ ret.val = TRUE
    /\ P.expenses = [housing |-> 250, food |-> 600, utilities |-> 300,
                     transportation |-> 450, entertainment |-> 300, other |-> 150]
    /\ calculateTotalMonthlyExpenses(P) = 2050
    /\ emitted[1].data.totalExpenses = 2050

\* the payload of the notification called name among out
DataOf(out, name) == (out[CHOOSE i \in 1..Len(out) : out[i].event = name]).data

\* how many notifications called name are among out
Count(out, name) == Cardinality({i \in 1..Len(out) : out[i].event = name})

\* C15: one processMonth() leaves savings = savings before + round(salary at
\* the start of the step / 12) if a job is held (else 0) - the sum of the
\* expenses - the cost of the one random event that fired (0 if none fired).
\* With a job held monthsWorked grows by exactly 1, and a raise granted in the
\* step starts from the salary the income was credited at and does not change
\* that income.
C15_MonthlySavingsAccounting ==
    [][ret'.op = "processMonth" =>
          /\ Count(emitted', "randomEvent") <= 1
          /\ Q.finance.savings =
                Sub(Sub(Add(P.finance.savings,
                            IF P.job # null
                            THEN Times(Round(P.finance.salary, 12), Unit) ELSE 0),
                        Times(SumOver(P.expenses, expenseNames), Unit)),
                    ReportedCost(emitted'))
          /\ IF P.job # null
             THEN /\ Q.job # null
                  /\ Q.job.monthsWorked = P.job.monthsWorked + 1
                  /\ Count(emitted', "gotRaise") = 1 =>
                        /\ DataOf(emitted', "gotRaise").oldSalary = P.finance.salary
                        /\ DataOf(emitted', "gotRaise").newSalary = Q.finance.salary
             ELSE Q.job = null /\ Count(emitted', "gotRaise") = 0]_vars

\* a month with a job in which a raise was granted and a random event fired
C15_Witness ==
    /\ ret.op = "processMonth"
    /\ Count(emitted, "gotRaise") = 1 /\ Count(emitted, "randomEvent") = 1
    /\ P.job # null /\ P.job.monthsWorked = 1
    /\ IsNum(P.finance.salary)
    /\ P.finance.salary > DataOf(emitted, "gotRaise").oldSalary
    /\ DataOf(emitted, "randomEvent").cost # 0

\* C16: one processMonth() emits, in this order, at most one gotRaise, then at
\* most one randomEvent, then exactly one monthProcessed, and nothing else.
\* The monthProcessed notification and the summary history entry carry the
\* month and year after the calendar advance; the raise and random-event
\* history entries of the step carry the month and year before it.
C16_NotificationOrder ==
    [][ret'.op = "processMonth" =>
          /\ Names(emitted') \in {<<"monthProcessed">>,
                                  <<"gotRaise", "monthProcessed">>,
                                  <<"randomEvent", "monthProcessed">>,
                                  <<"gotRaise", "randomEvent", "monthProcessed">>}
          /\ LastData(emitted').month = gameMonth'
          /\ LastData(emitted').year = gameYear'
          /\ <<gameMonth', gameYear'>> # <<gameMonth, gameYear>>
          /\ Appended = (IF Count(emitted', "gotRaise") = 1
                          THEN <<"Got a raise of">> ELSE <<>>)
                         \o (IF Count(emitted', "randomEvent") = 1
                             THEN <<"Random event">> ELSE <<>>)
                         \o <<"Month">>
          /\ \A i \in (Len(P.history) + 1)..Len(Q.history) :
                LET h == Q.history[i]
                IN  IF i = Len(Q.history)
                    THEN /\ h.month = gameMonth' /\ h.year = gameYear'
                         /\ h.entry[2] = gameMonth' /\ h.entry[3] = gameYear'
                    ELSE h.month = gameMonth /\ h.year = gameYear]_vars

\* a month emitted all three notifications
C16_Witness ==
    /\ ret.op = "processMonth"
    /\ Names(emitted) = <<"gotRaise", "randomEvent", "monthProcessed">>
    /\ LastData(emitted).month = 2 /\ gameMonth = 2
    /\ P.history[Len(P.history)].month = 2
    /\ P.history[Len(P.history) - 1].month = 1
    /\ P.history[Len(P.history) - 2].month = 1

\* C17: acceptJob(title) with a title of the catalog, called with a location
\* set, returns true and replaces the job as a whole: the new job has that
\* title and monthsWorked = 0, also when the player held that title already;
\* finance.salary equals the new job's salary; exactly one history entry is
\* appended and one jobAccepted notification emitted; savings, skills,
\* expenses, location and calendar are unchanged.
C17_AcceptJobReplacesJob ==
    [][(/\ ret'.op = "acceptJob"
        /\ ret'.args[1] \in DOMAIN jobTypes
        /\ P.location # NullName) =>
          /\ ret'.status = "return" /\ ret'.val = TRUE
          /\ Q.job # null
          /\ DOMAIN Q.job = {"title", "salary", "monthsWorked"}
          /\ Q.job.title = ret'.args[1]
          /\ Q.job.monthsWorked = 0
          /\ Q.finance.salary = Q.job.salary
          /\ Len(Q.history) = Len(P.history) + 1
          /\ SubSeq(Q.history, 1, Len(P.history)) = P.history
          /\ Q.history[Len(Q.history)].entry =
                <<"Got a job as", ret'.args[1], Q.job.salary>>
          /\ emitted' = <<[event |-> "jobAccepted", data |-> Q.job]>>
          /\ Q.finance.savings = P.finance.savings
          /\ Q.finance.debt = P.finance.debt
          /\ Q.finance.investments = P.finance.investments
          /\ Q.skills = P.skills
          /\ Q.expenses = P.expenses
          /\ Q.location = P.location
          /\ gameMonth' = gameMonth /\ gameYear' = gameYear]_vars

\* the title held for a month and raised was accepted again: the tenure and
\* the raise are gone
C17_Witness ==
    /\ ret.op = "acceptJob" /\ ret.status = "return" /\ ret.args[1] = "Retail"
    /\ Len(P.history) = 4
    /\ P.history[1].entry[1] = "Got a job as" /\ P.history[1].entry[2] = "Retail"
    /\ HistoryHas("Got a raise of") /\ HistoryHas("Month")
    /\ P.job.title = "Retail" /\ P.job.monthsWorked = 0
    /\ P.finance.salary = P.history[1].entry[3]

\* C18: updateExpense(category, amount) with a recognized category returns
\* true and overwrites that category only (the other five expenses, savings,
\* job, skills, history and calendar are unchanged), emitting one
\* expenseUpdated notification whose totalExpenses is the total after the
\* overwrite; with an unrecognized category it returns false, changes nothing
\* and emits nothing.
C18_UpdateExpenseOverwritesOne ==
    [][ret'.op = "updateExpense" =>
          /\ ret'.status = "return"
          /\ gameMonth' = gameMonth /\ gameYear' = gameYear
          /\ IF ret'.args[1] \in DOMAIN P.expenses
             THEN /\ ret'.val = TRUE
                  /\ Q.expenses[ret'.args[1]] = ret'.args[2]
                  /\ \A c \in DOMAIN P.expenses \ {ret'.args[1]} :
                        Q.expenses[c] = P.expenses[c]
                  /\ Cardinality(DOMAIN P.expenses \ {ret'.args[1]}) = 5
                  /\ [Q EXCEPT !.expenses = P.expenses] = P
                  /\ emitted' =
                        <<[event |-> "expenseUpdated",
                           data |-> [category |-> ret'.args[1], amount |-> ret'.args[2],
                                     totalExpenses |->
                                         SumOver(Q.expenses, DOMAIN Q.expenses)]]>>
             ELSE /\ ret'.val = FALSE
                  /\ Q = P
                  /\ emitted' = <<>>]_vars

\* the housing of a location was overwritten, and the total reported is the
\* new one
C18_Witness ==
    /\ ret.op = "updateExpense" /\ ret.args = <<"housing", 250>>
    /\ P.location = "Big City" /\ P.expenses.housing = 250
    /\ P.expenses.food = 600
    /\ Len(emitted) = 1 /\ emitted[1].data.totalExpenses = 250 + 1800

\* C19: loadGameState(s) of a snapshot s = getGameState() taken earlier, with
\* any calls of processMonth, acceptJob, improveSkill, updateExpense and
\* setLocation in between, leaves the player (savings, salary, job, skills,
\* expenses, history) and the month and year equal to what they were when s
\* was taken.
C19_SnapshotRestoresPlayer ==
    [][(ret'.op = "loadGameState" /\ saved # null /\ ret'.args[1] = saved) =>
          /\ gameMonth' = saved.gameMonth
          /\ gameYear' = saved.gameYear
          /\ Q = savedPlayer]_vars

\* C20: the income carried by the monthProcessed notification, and by the
\* summary history entry, of a processMonth() equals the amount the step
\* credited to savings (round(salary at the start of the step / 12) with a job
\* held, as C15 establishes), in every step including those in which a raise
\* is granted; it is 0 when no job is held.
C20_ReportedIncomeIsCredited ==
    [][ret'.op = "processMonth" =>
          LET credited == IF P.job # null THEN Round(P.finance.salary, 12) ELSE 0
          IN  /\ LastData(emitted').income = credited
              /\ Q.history[Len(Q.history)].entry[4] = credited]_vars

====
